---- MODULE Spec2Model ----
(***************************************************************************)
(* Model of faiss/utils/partitioning.cpp: the fuzzy partition of a table   *)
(* of (value, id) pairs, in its scalar form (partition_fuzzy_median3) and  *)
(* its 16-bit SIMD form (simd_partition_fuzzy), the driver that picks one  *)
(* of them, and the SIMD histograms with 8 and 16 bins.                    *)
(*                                                                         *)
(* Values are uint16_t (the instantiations CMin<uint16_t,.> and            *)
(* CMax<uint16_t,.>, the only ones that reach both forms). C arrays are    *)
(* 0-based, the sequences here 1-based: vals[i] of the code is vals[i+1].  *)
(***************************************************************************)
EXTENDS Integers, Sequences, FiniteSets, TLC

VARIABLES
    vals0,      \* the table of values the caller passes
    ids0,       \* the table of ids the caller passes
    q_min,      \* the window of the requested partition size
    q_max,
    is_max,     \* the comparison C: TRUE for CMax, FALSE for CMin
    res,        \* per form, the outcome of the first call on (vals0, ids0)
    res2,       \* per form, the outcome of a second call on the first's tables
    hcall,      \* the arguments of the histogram call
    hres        \* the outcome of the histogram call

vars == <<vals0, ids0, q_min, q_max, is_max, res, res2, hcall, hres>>

(***************************************************************************)
(* Bounds of the model                                                     *)
(***************************************************************************)
\* longest table of the exhaustive family of inputs
MaxN == 4
\* longest tail (n mod 16) of the tables that hold full SIMD blocks
MaxTail == 1

(***************************************************************************)
(* Constants of the program                                                *)
(***************************************************************************)
\* the number of uint16_t values
U16 == 2 ^ 16
U16Max == 65535
Lanes == 16
MaxIt == 200
big_prime == 6700417

\* the scores the tables are filled with: both ends of the uint16_t range
\* (the neutral elements of CMin and CMax) and a value between them
Scores == {0, 1, 65535}

Paths == {"scalar", "simd"}

Min2(a, b) == IF a < b THEN a ELSE b
Max2(a, b) == IF a > b THEN a ELSE b

(***************************************************************************)
(* The comparison C (CMin / CMax), as partitioning.cpp uses it             *)
(***************************************************************************)
\* C::cmp(a, b): a > b for CMax, a < b for CMin
cmp(c, a, b) == IF c THEN a > b ELSE a < b

\* C::neutral(): the value no other compares beyond
neutral(c) == IF c THEN U16Max ELSE 0

\* C::nextafter(x) on uint16_t: one step in the direction of cmp
nextafter(c, x) == IF c THEN (x + 1) % U16 ELSE (x - 1) % U16

\* C::Crev, the reversed comparison
Crev(c) == ~c

(***************************************************************************)
(* Scalar routines (namespace partitioning)                                *)
(***************************************************************************)
median3(a0, b0, c) ==
    LET a == IF a0 > b0 THEN b0 ELSE a0
        b == IF a0 > b0 THEN a0 ELSE b0
    IN  IF c > b THEN b
        ELSE IF c > a THEN c
        ELSE a

\* the values sample_threshold_median3 collects, visiting vals[(i*big_prime) % n]
\* for i = 0, 1, ... until it holds three
RECURSIVE sample_collect(_, _, _, _, _, _)
sample_collect(v, c, thresh_inf, thresh_sup, i, val3) ==
    IF i >= Len(v) \/ Len(val3) = 3 THEN val3
    ELSE LET x == v[((i * big_prime) % Len(v)) + 1]
         IN  sample_collect(v, c, thresh_inf, thresh_sup, i + 1,
                IF cmp(c, x, thresh_inf) /\ cmp(c, thresh_sup, x)
                THEN Append(val3, x) ELSE val3)

\* the end of sample_threshold_median3: the median of three collected
\* values, or the first collected one, or thresh_inf when there is none
sample_result(val3, thresh_inf) ==
    IF Len(val3) = 3 THEN median3(val3[1], val3[2], val3[3])
    ELSE IF Len(val3) # 0 THEN val3[1]
    ELSE thresh_inf

sample_threshold_median3(v, c, thresh_inf, thresh_sup) ==
    sample_result(sample_collect(v, c, thresh_inf, thresh_sup, 0, <<>>),
                  thresh_inf)

\* partitioning::count_lt_and_eq over vals[lo..hi-1] (0-based, hi exclusive)
RECURSIVE count_range(_, _, _, _, _, _)
count_range(v, c, thresh, i, hi, acc) ==
    IF i >= hi THEN acc
    ELSE count_range(v, c, thresh, i + 1, hi,
            IF cmp(c, thresh, v[i + 1])
            THEN [acc EXCEPT !.n_lt = @ + 1]
            ELSE IF v[i + 1] = thresh
            THEN [acc EXCEPT !.n_eq = @ + 1]
            ELSE acc)

count_lt_and_eq(v, c, thresh) ==
    count_range(v, c, thresh, 0, Len(v), [n_lt |-> 0, n_eq |-> 0])

\* compress_step with the copy of the id forgotten: vals[wp] = vals[i]
\* without ids[wp] = ids[i]
compress_step_no_id(st, c, thresh, i) ==
    IF cmp(c, thresh, st.vals[i + 1])
    THEN [st EXCEPT !.vals[st.wp + 1] = st.vals[i + 1],
                    !.wp = @ + 1]
    ELSE IF st.n_eq > 0 /\ st.vals[i + 1] = thresh
    THEN [st EXCEPT !.vals[st.wp + 1] = st.vals[i + 1],
                    !.wp = @ + 1,
                    !.n_eq = @ - 1]
    ELSE st

\* one element of the compress loops: keep it if it compares beyond thresh,
\* or if it equals thresh while equal values are still wanted
compress_step(st, c, thresh, i) ==
    IF cmp(c, thresh, st.vals[i + 1])
    THEN [st EXCEPT !.vals[st.wp + 1] = st.vals[i + 1],
                    !.ids[st.wp + 1] = st.ids[i + 1],
                    !.wp = @ + 1]
    ELSE IF st.n_eq > 0 /\ st.vals[i + 1] = thresh
    THEN [st EXCEPT !.vals[st.wp + 1] = st.vals[i + 1],
                    !.ids[st.wp + 1] = st.ids[i + 1],
                    !.wp = @ + 1,
                    !.n_eq = @ - 1]
    ELSE st

RECURSIVE compress_range(_, _, _, _, _)
compress_range(st, c, thresh, i, hi) ==
    IF i >= hi THEN st
    ELSE compress_range(compress_step(st, c, thresh, i), c, thresh, i + 1, hi)

\* partitioning::compress_array; the record holds the tables, the write
\* pointer wp and the equal values still to take (n_eq, asserted 0 at the end)
compress_array(v, d, c, thresh, n_eq) ==
    compress_range([vals |-> v, ids |-> d, wp |-> 0, n_eq |-> n_eq],
                   c, thresh, 0, Len(v))


(***************************************************************************)
(* Outcomes of a call                                                      *)
(***************************************************************************)
\* q_out and thresh of an outcome that wrote or returned none
NotSet == 0 - 1

NoCall == [outcome |-> "none", thresh |-> NotSet, q_out |-> NotSet,
           vals |-> <<>>, ids |-> <<>>, wp |-> 0, it |-> 0, exit |-> "none",
           fixup |-> FALSE, asserts_ok |-> TRUE]

\* a return through one of the shortcuts before the loop
Shortcut(v, d, thresh, q, how) ==
    [outcome |-> "returned", thresh |-> thresh, q_out |-> q,
     vals |-> v, ids |-> d, wp |-> 0, it |-> 0, exit |-> how,
     fixup |-> FALSE, asserts_ok |-> TRUE]

\* FAISS_THROW_IF_NOT: an exception reaches the caller
Thrown(v, d) ==
    [outcome |-> "throw", thresh |-> NotSet, q_out |-> NotSet,
     vals |-> v, ids |-> d, wp |-> 0, it |-> 0, exit |-> "throw",
     fixup |-> FALSE, asserts_ok |-> TRUE]

\* the end of a call that ran the loop and the compress pass (cs). pre_ok
\* is the assert before the compress pass; assert(n_eq == 0) in it and
\* assert(wp == q) after it make post_ok. With assertions compiled in
\* (~ndebug) the first failing assert aborts the process; with NDEBUG the
\* call returns thresh (as uint16_t) and writes q to q_out
Finish(L, v, d, cs, thresh, q, fix, pre_ok, ndebug) ==
    LET post_ok == cs.n_eq = 0 /\ cs.wp = q
    IN  IF ~ndebug /\ ~pre_ok
        THEN [outcome |-> "abort", thresh |-> NotSet, q_out |-> NotSet,
              vals |-> v, ids |-> d, wp |-> 0, it |-> L.it, exit |-> L.exit,
              fixup |-> fix, asserts_ok |-> FALSE]
        ELSE IF ~ndebug /\ ~post_ok
        THEN [outcome |-> "abort", thresh |-> NotSet, q_out |-> NotSet,
              vals |-> cs.vals, ids |-> cs.ids, wp |-> cs.wp, it |-> L.it,
              exit |-> L.exit, fixup |-> fix, asserts_ok |-> FALSE]
        ELSE [outcome |-> "returned", thresh |-> thresh % U16, q_out |-> q,
              vals |-> cs.vals, ids |-> cs.ids, wp |-> cs.wp, it |-> L.it,
              exit |-> L.exit, fixup |-> fix,
              asserts_ok |-> pre_ok /\ post_ok]

(***************************************************************************)
(* partitioning::partition_fuzzy_median3                                   *)
(***************************************************************************)
\* the bisection loop: what it leaves in thresh, n_lt, n_eq and q, the
\* iterations it ran and the way it ended
RECURSIVE median3_loop(_, _, _, _, _, _, _, _, _)

\* the end of an iteration that missed the target: the loop ends when the
\* new threshold is the lower end of the interval, else it goes on
median3_next(v, c, qmin, qmax, it, new_thresh, thresh_inf, thresh_sup, cur) ==
    IF new_thresh = thresh_inf
    THEN [cur EXCEPT !.exit = "exhausted"]
    ELSE median3_loop(v, c, qmin, qmax, it + 1,
                      new_thresh, thresh_inf, thresh_sup, cur)

\* one iteration, with cnt the counts (n_lt, n_eq) of thresh
median3_iter(v, c, qmin, qmax, it, thresh, thresh_inf, thresh_sup, cnt) ==
    LET cur == [thresh |-> thresh, n_lt |-> cnt.n_lt, n_eq |-> cnt.n_eq,
                q |-> 0, it |-> it + 1, exit |-> "none"]
        inf2 == IF cnt.n_lt <= qmin THEN thresh ELSE thresh_inf
        sup2 == IF cnt.n_lt <= qmin THEN thresh_sup ELSE thresh
    IN  IF cnt.n_lt <= qmin /\ cnt.n_lt + cnt.n_eq >= qmin
        THEN [cur EXCEPT !.q = qmin, !.exit = "q_min"]
        ELSE IF cnt.n_lt > qmin /\ cnt.n_lt <= qmax
        THEN [cur EXCEPT !.q = cnt.n_lt, !.exit = "n_lt"]
        ELSE median3_next(v, c, qmin, qmax, it,
                          sample_threshold_median3(v, c, inf2, sup2),
                          inf2, sup2, cur)

median3_loop(v, c, qmin, qmax, it, thresh, thresh_inf, thresh_sup, last) ==
    IF it >= MaxIt THEN [last EXCEPT !.thresh = thresh, !.exit = "cap"]
    ELSE median3_iter(v, c, qmin, qmax, it, thresh, thresh_inf, thresh_sup,
                      count_lt_and_eq(v, c, thresh))

\* the code after the loop, on what the loop left (L): the tie correction,
\* the compress pass and the asserts
median3_end(L, v, d, c, qmin, ndebug) ==
    LET fix == L.q - L.n_lt < 0
        q == IF fix THEN qmin ELSE L.q
        thresh == IF fix THEN nextafter(Crev(c), L.thresh) ELSE L.thresh
        n_eq_1 == IF fix THEN qmin ELSE L.q - L.n_lt
        pre_ok == fix \/ n_eq_1 <= L.n_eq
    IN  Finish(L, v, d, compress_array(v, d, c, thresh, n_eq_1),
               thresh, q, fix, pre_ok, ndebug)

partition_fuzzy_median3(v, d, c, qmin, qmax, ndebug) ==
    LET n == Len(v) IN
    IF qmin = 0 THEN Shortcut(v, d, 0, neutral(Crev(c)), "q_min=0")
    ELSE IF qmax >= n THEN Shortcut(v, d, neutral(c), qmax, "q_max>=n")
    ELSE IF ~(n >= 3) THEN Thrown(v, d)
    ELSE median3_end(
            median3_loop(v, c, qmin, qmax, 0,
                         median3(v[1], v[(n \div 2) + 1], v[n]),
                         neutral(Crev(c)), neutral(c),
                         [thresh |-> 0, n_lt |-> 0, n_eq |-> 0,
                          q |-> 0, it |-> 0, exit |-> "none"]),
            v, d, c, qmin, ndebug)

(***************************************************************************)
(* SIMD routines (namespace simd_partitioning)                             *)
(***************************************************************************)
RECURSIVE minimax_range(_, _, _, _)
minimax_range(v, i, hi, acc) ==
    IF i >= hi THEN acc
    ELSE minimax_range(v, i + 1, hi,
            [smin |-> Min2(acc.smin, v[i + 1]), smax |-> Max2(acc.smax, v[i + 1])])

\* find_minimax: the full blocks through vmin(0xffff) and vmax(0), then the
\* values past the last full block
find_minimax(v) ==
    LET n16 == (Len(v) \div Lanes) * Lanes
    IN  minimax_range(v, n16, Len(v),
            minimax_range(v, 0, n16, [smin |-> U16Max, smax |-> 0]))

\* max_func: _mm256_max_epu16 for CMax, _mm256_min_epu16 for CMin
max_func(c, x, thr) == IF c THEN Max2(x, thr) ELSE Min2(x, thr)

\* one block of simd count_lt_and_eq: popcounts of the eq and ge masks
count_block(v, c, thresh, i0) ==
    LET lanes == (i0 + 1)..(i0 + Lanes)
        i_eq == Cardinality({i \in lanes : v[i] = thresh})
        i_ge == Cardinality({i \in lanes : v[i] = max_func(c, v[i], thresh)})
    IN  [n_lt |-> Lanes - i_ge, n_eq |-> i_eq]

RECURSIVE count_blocks(_, _, _, _, _)
count_blocks(v, c, thresh, b, acc) ==
    IF b >= Len(v) \div Lanes THEN acc
    ELSE LET k == count_block(v, c, thresh, b * Lanes)
         IN  count_blocks(v, c, thresh, b + 1,
                [n_lt |-> acc.n_lt + k.n_lt, n_eq |-> acc.n_eq + k.n_eq])

\* simd count_lt_and_eq without its loop over the values past the last
\* full block
simd_count_no_tail(v, c, thresh) ==
    count_blocks(v, c, thresh, 0, [n_lt |-> 0, n_eq |-> 0])

simd_count_lt_and_eq(v, c, thresh) ==
    count_range(v, c, thresh, (Len(v) \div Lanes) * Lanes, Len(v),
                count_blocks(v, c, thresh, 0, [n_lt |-> 0, n_eq |-> 0]))

\* one lane of a block of simd_compress_array; blk is the block as loaded
\* into the register before the lanes are written out
compress_lane(st, blk, c, thresh, i, take_eq) ==
    LET is_lt == ~(blk[i + 1] = max_func(c, blk[i + 1], thresh))
        is_eq == blk[i + 1] = thresh
    IN  IF is_lt
        THEN [st EXCEPT !.vals[st.wp + 1] = st.vals[i + 1],
                        !.ids[st.wp + 1] = st.ids[i + 1],
                        !.wp = @ + 1]
        ELSE IF take_eq /\ is_eq /\ st.n_eq > 0
        THEN [st EXCEPT !.vals[st.wp + 1] = st.vals[i + 1],
                        !.ids[st.wp + 1] = st.ids[i + 1],
                        !.wp = @ + 1,
                        !.n_eq = @ - 1]
        ELSE st

RECURSIVE compress_lanes(_, _, _, _, _, _, _)
compress_lanes(st, blk, c, thresh, i, hi, take_eq) ==
    IF i >= hi THEN st
    ELSE compress_lanes(compress_lane(st, blk, c, thresh, i, take_eq),
                        blk, c, thresh, i + 1, hi, take_eq)

\* the two block loops of simd_compress_array: the first runs while equal
\* values are still wanted, the second keeps only the strictly lt lanes
RECURSIVE compress_blocks(_, _, _, _, _)
compress_blocks(st, c, thresh, i0, first) ==
    IF ~(i0 + Lanes - 1 < Len(st.vals)) THEN st
    ELSE IF first /\ st.n_eq > 0
    THEN compress_blocks(
            compress_lanes(st, st.vals, c, thresh, i0, i0 + Lanes, TRUE),
            c, thresh, i0 + Lanes, TRUE)
    ELSE compress_blocks(
            compress_lanes(st, st.vals, c, thresh, i0, i0 + Lanes, FALSE),
            c, thresh, i0 + Lanes, FALSE)

simd_compress_array(v, d, c, thresh, n_eq) ==
    compress_range(
        compress_blocks([vals |-> v, ids |-> d, wp |-> 0, n_eq |-> n_eq],
                        c, thresh, 0, TRUE),
        c, thresh, (Len(v) \div Lanes) * Lanes, Len(v))

\* the binary search of simd_partition_fuzzy_with_bounds on [s0, s1). An
\* iteration that leaves s0 and s1 as they were repeats itself unchanged
\* until it = 200: the model goes to that end of the loop in one step
RECURSIVE simd_loop(_, _, _, _, _, _, _, _)

\* simd_iter with the test of C::is_max inverted: the wrong end of the
\* interval moves
simd_iter_swapped(v, c, qmin, qmax, it, s0, s1, thresh, cnt) ==
    LET cur == [thresh |-> thresh, n_lt |-> cnt.n_lt, n_eq |-> cnt.n_eq,
                q |-> 0, it |-> it + 1, exit |-> "none", s0 |-> s0, s1 |-> s1]
    IN  IF cnt.n_lt <= qmin /\ cnt.n_lt + cnt.n_eq >= qmin
        THEN [cur EXCEPT !.q = qmin, !.exit = "q_min"]
        ELSE IF cnt.n_lt > qmin /\ cnt.n_lt <= qmax
        THEN [cur EXCEPT !.q = cnt.n_lt, !.exit = "n_lt"]
        ELSE IF (cnt.n_lt <= qmin) = ~c
        THEN IF thresh = s0
             THEN [cur EXCEPT !.it = MaxIt, !.exit = "cap"]
             ELSE simd_loop(v, c, qmin, qmax, it + 1, thresh, s1,
                            [cur EXCEPT !.s0 = thresh])
        ELSE IF thresh = s1
             THEN [cur EXCEPT !.it = MaxIt, !.exit = "cap"]
             ELSE simd_loop(v, c, qmin, qmax, it + 1, s0, thresh,
                            [cur EXCEPT !.s1 = thresh])

\* one iteration, with cnt the counts (n_lt, n_eq) of thresh
simd_iter(v, c, qmin, qmax, it, s0, s1, thresh, cnt) ==
    LET cur == [thresh |-> thresh, n_lt |-> cnt.n_lt, n_eq |-> cnt.n_eq,
                q |-> 0, it |-> it + 1, exit |-> "none", s0 |-> s0, s1 |-> s1]
    IN  IF cnt.n_lt <= qmin /\ cnt.n_lt + cnt.n_eq >= qmin
        THEN [cur EXCEPT !.q = qmin, !.exit = "q_min"]
        ELSE IF cnt.n_lt > qmin /\ cnt.n_lt <= qmax
        THEN [cur EXCEPT !.q = cnt.n_lt, !.exit = "n_lt"]
        ELSE IF (cnt.n_lt <= qmin) = c
        THEN IF thresh = s0
             THEN [cur EXCEPT !.it = MaxIt, !.exit = "cap"]
             ELSE simd_loop(v, c, qmin, qmax, it + 1, thresh, s1,
                            [cur EXCEPT !.s0 = thresh])
        ELSE IF thresh = s1
             THEN [cur EXCEPT !.it = MaxIt, !.exit = "cap"]
             ELSE simd_loop(v, c, qmin, qmax, it + 1, s0, thresh,
                            [cur EXCEPT !.s1 = thresh])

simd_loop(v, c, qmin, qmax, it, s0, s1, last) ==
    IF it >= MaxIt THEN [last EXCEPT !.exit = "cap"]
    ELSE simd_iter(v, c, qmin, qmax, it, s0, s1, (s0 + s1) \div 2,
                   simd_count_lt_and_eq(v, c, ((s0 + s1) \div 2) % U16))

\* the code after the loop, on what the loop left (L): the tie correction,
\* the compress pass and the asserts
simd_end(L, v, d, c, qmin, ndebug) ==
    LET fix == L.q - L.n_lt < 0
        q == IF fix THEN qmin ELSE L.q
        thresh == IF fix THEN (IF c THEN L.thresh - 1 ELSE L.thresh + 1)
                  ELSE L.thresh
        n_eq_1 == IF fix THEN qmin ELSE L.q - L.n_lt
        pre_ok == IF fix THEN L.s0 + 1 = L.s1 ELSE n_eq_1 <= L.n_eq
    IN  Finish(L, v, d, simd_compress_array(v, d, c, thresh % U16, n_eq_1),
               thresh, q, fix, pre_ok, ndebug)

simd_partition_fuzzy_with_bounds(v, d, c, qmin, qmax, s0i, s1i, ndebug) ==
    IF qmin = 0 THEN Shortcut(v, d, 0, 0, "q_min=0")
    ELSE IF qmax >= Len(v) THEN Shortcut(v, d, U16Max, qmax, "q_max>=n")
    ELSE IF s0i = s1i THEN Shortcut(v, d, s0i, qmin, "s0i=s1i")
    ELSE simd_end(
            simd_loop(v, c, qmin, qmax, 0, s0i, s1i + 1,
                      [thresh |-> 0, n_lt |-> 0, n_eq |-> 0, q |-> 0,
                       it |-> 0, exit |-> "none",
                       s0 |-> s0i, s1 |-> s1i + 1]),
            v, d, c, qmin, ndebug)

\* simd_partition_fuzzy_with_bounds between the minimum and the maximum
\* of the table (mm)
simd_partition_minimax(v, d, c, qmin, qmax, mm, ndebug) ==
    simd_partition_fuzzy_with_bounds(v, d, c, qmin, qmax,
                                     mm.smin, mm.smax, ndebug)

simd_partition_fuzzy(v, d, c, qmin, qmax, ndebug) ==
    simd_partition_minimax(v, d, c, qmin, qmax, find_minimax(v), ndebug)

(***************************************************************************)
(* Driver routine                                                          *)
(***************************************************************************)
\* partition_fuzzy<C> with C::T = uint16_t in an AVX2 build: the SIMD form
\* when vals is an aligned pointer, the scalar form otherwise
partition_fuzzy(v, d, c, qmin, qmax, aligned, ndebug) ==
    IF aligned
    THEN simd_partition_fuzzy(v, d, c, qmin, qmax, ndebug)
    ELSE partition_fuzzy_median3(v, d, c, qmin, qmax, ndebug)

PathOf(aligned) == IF aligned THEN "simd" ELSE "scalar"


(***************************************************************************)
(* Histogram subroutines                                                   *)
(***************************************************************************)
RECURSIVE BitOr(_, _)
BitOr(a, b) ==
    IF a = 0 THEN b
    ELSE IF b = 0 THEN a
    ELSE 2 * BitOr(a \div 2, b \div 2) + (IF a % 2 = 1 \/ b % 2 = 1 THEN 1 ELSE 0)

\* f[lo] + ... + f[hi], added by halves
RECURSIVE SumRange(_, _, _)
SumRange(f, lo, hi) ==
    IF lo > hi THEN 0
    ELSE IF lo = hi THEN f[lo]
    ELSE SumRange(f, lo, (lo + hi) \div 2)
            + SumRange(f, ((lo + hi) \div 2) + 1, hi)

\* the sum of the numbers of the sequence f
SumSeq(f) == SumRange(f, 1, Len(f))

\* one 128-bit lane of the tables "shifts" (8 bins) and "shifts2" (16 bins)
shifts == <<1, 16, 0, 0, 4, 64, 0, 0, 0, 0, 1, 16, 0, 0, 4, 64>>
shifts2 == <<1, 2, 4, 8, 16, 32, 64, 128, 1, 2, 4, 8, 16, 32, 64, 128>>

\* lookup_2_lanes on one byte b of the index: 0 when the high bit of b is
\* set, else the entry of the table its low 4 bits select
lookup_2_lanes(tab, b) == IF b >= 128 THEN 0 ELSE tab[(b % 16) + 1]

\* x >> s on an int16_t (_mm256_srai_epi16, and "vs >>= shift"), as uint16_t
srai_epi16(x, s) ==
    LET sx == IF x >= 32768 THEN x - U16 ELSE x
        fl == IF sx >= 0 THEN sx \div (2 ^ s)
              ELSE -(((-sx) + (2 ^ s) - 1) \div (2 ^ s))
    IN  fl % U16

\* PreprocNOP (shift < 0) and PreprocMinShift<shift>(min) on one lane
Preproc(shift, min, x) ==
    IF shift < 0 THEN x ELSE srai_epi16((x - min) % U16, shift)

\* do_clip of the two preprocessors
do_clip(shift) == shift >= 0

\* compute_accu2 on one lane: the 16-bit word of 2-bit counters that the
\* preprocessed value v adds to a2 (idx = v | (v << 8) | 0x800)
accu2_word(v) ==
    lookup_2_lanes(shifts, v % 256)
        + 256 * lookup_2_lanes(shifts, BitOr(BitOr(v \div 256, v % 256), 8))

\* the counter of bin b in a word of a2: a4lo takes a2 & 0x3333 (bins 0..3,
\* one per nibble), a4hi takes (a2 >> 2) & 0x3333 (bins 4..7)
accu2_bin(word, b) ==
    IF b < 4 THEN (word \div (16 ^ b)) % 4
    ELSE (word \div (4 * (16 ^ (b - 4)))) % 4

\* compute_accu2_16 on one lane: the bytes (lo, hi) of the masked a1, as
\* lo + 256 * hi
accu2_16_word(v, clip) ==
    LET lo == lookup_2_lanes(shifts2, v % 256)
        hi == lookup_2_lanes(shifts2, BitOr(v \div 256, v % 256))
    IN  IF clip /\ ~(v \div 16 = 0) THEN 0
        ELSE IF v \div 8 = 0 THEN lo
        ELSE 256 * hi

\* the counter of bin b in that word: bit b of lo for bins 0..7, bit b - 8
\* of hi for bins 8..15
accu2_16_bin(word, b) == (word \div (2 ^ b)) % 2

\* what lane l of block k adds to the counter of bin b
lane_count(data, bins, shift, min, k, l, b) ==
    LET v == Preproc(shift, min, data[k * Lanes + l + 1])
    IN  IF bins = 8 THEN accu2_bin(accu2_word(v), b)
        ELSE accu2_16_bin(accu2_16_word(v, do_clip(shift)), b)

\* the lanes whose counters of a bin meet in byte g of the 8-bit
\* accumulators (a8lo, a8hi): for 8 bins _mm256_hadd_epi16 adds the lanes
\* 2g and 2g+1 (g = 0..7); for 16 bins combine_2x2 first adds the two
\* 128-bit halves (g = 0..3)
a8_lanes(bins, g) ==
    IF bins = 8 THEN {2 * g, 2 * g + 1}
    ELSE {2 * g, 2 * g + 1, 2 * g + 8, 2 * g + 9}

\* byte g of the 8-bit accumulator of bin b after all the blocks: the
\* 2-bit and 4-bit stages take at most 3 and 15 (7 for 16 bins) additions
\* of 0 or 1 and are exact, the bytes are added modulo 256
a8_byte(data, bins, shift, min, nblocks, g, b) ==
    SumSeq([k \in 1..nblocks |->
        SumSeq([l \in 1..Lanes |->
            IF (l - 1) \in a8_lanes(bins, g)
            THEN lane_count(data, bins, shift, min, k - 1, l - 1, b)
            ELSE 0])]) % 256

\* histogram_8 / histogram_16: the 16 uint16_t of a16 as stored to a16_tab.
\* For 8 bins a16_tab[b] counts bin b in the lanes 0..7 and a16_tab[b + 8]
\* in the lanes 8..15; for 16 bins a16_tab[b] counts bin b
histogram_a16(data, bins, shift, min, n_in) ==
    LET nblocks == n_in \div Lanes
    IN  [i \in 1..16 |->
            IF bins = 8
            THEN SumSeq([j \in 1..4 |->
                    a8_byte(data, 8, shift, min, nblocks,
                            4 * ((i - 1) \div 8) + j - 1, (i - 1) % 8)]) % U16
            ELSE SumSeq([j \in 1..4 |->
                    a8_byte(data, 16, shift, min, nblocks, j - 1, i - 1)]) % U16]

\* the loop over the elements past the last full block: hist[v]++ for the
\* preprocessed v when it is a bin. st.ub records a write past the end of
\* hist (the unbounded versions do not compare v with the number of bins)
RECURSIVE hist_tail(_, _, _, _, _, _, _)
hist_tail(st, data, bins, shift, min, i, n) ==
    IF i >= n THEN st
    ELSE LET v == Preproc(shift, min, data[i + 1])
         IN  hist_tail(
                IF v < bins THEN [st EXCEPT !.hist[v + 1] = @ + 1]
                ELSE IF shift < 0 THEN [st EXCEPT !.ub = TRUE]
                ELSE st,
                data, bins, shift, min, i + 1, n)

\* simd_histogram that clears hist before it looks at shift
simd_histogram_clear_first(data, bins, min, shift, hist) ==
    IF shift > 8
    THEN [outcome |-> "throw", hist |-> [i \in 1..bins |-> 0]]
    ELSE [outcome |-> "returned", hist |-> [i \in 1..bins |-> 0]]

\* simd_histogram_8 (bins = 8) and simd_histogram_16 (bins = 16): the
\* unbounded version for shift < 0, the DISPATCH over shift = 0..8, the
\* FAISS_THROW_FMT of its default case
simd_histogram(data, bins, min, shift, hist) ==
    IF shift > 8
    THEN [outcome |-> "throw", hist |-> hist]
    ELSE
    LET n == Len(data)
        n16 == (n \div Lanes) * Lanes
        a16_tab == histogram_a16(data, bins, shift, min, n16)
        assigned == [i \in 1..bins |->
                        IF bins = 8 THEN a16_tab[i] + a16_tab[i + 8]
                        ELSE a16_tab[i]]
        st == hist_tail([hist |-> assigned, ub |-> FALSE],
                        data, bins, shift, min, n16, n)
    IN  [outcome |-> IF st.ub THEN "ub" ELSE "returned", hist |-> st.hist]

simd_histogram_8(data, min, shift, hist) ==
    simd_histogram(data, 8, min, shift, hist)

simd_histogram_16(data, min, shift, hist) ==
    simd_histogram(data, 16, min, shift, hist)

(***************************************************************************)
(* The inputs of the model                                                 *)
(***************************************************************************)
\* every table of at most MaxN scores
ShortTables == UNION {[1..n -> Scores] : n \in 0..MaxN}

\* tables with a full SIMD block: a pattern of three scores repeated over
\* Lanes .. Lanes + MaxTail elements
LongTables ==
    {[i \in 1..n |-> p[((i - 1) % 3) + 1]] :
        p \in [1..3 -> Scores], n \in Lanes..(Lanes + MaxTail)}

Tables == ShortTables \cup LongTables

\* the sizes a caller asks for on a table of n elements: valid ones, and
\* the ones just out of range
Sizes(n) == IF n <= MaxN THEN 0..(n + 1)
            ELSE {0, 1, n \div 2, n - 1, n}

\* distinct ids, so that an id names the place its value came from
Ids(n) == [i \in 1..n |-> 100 + i]

NoHist == [outcome |-> "none", hist |-> <<>>]

Init ==
    /\ vals0 \in Tables
    /\ ids0 = Ids(Len(vals0))
    /\ q_min \in Sizes(Len(vals0))
    /\ q_max \in Sizes(Len(vals0))
    /\ is_max \in BOOLEAN
    /\ res = [p \in Paths |-> NoCall]
    /\ res2 = [p \in Paths |-> NoCall]
    /\ hcall = NoHist
    /\ hres = NoHist

\* the outcomes of a call in the two builds, given its outcome r in the
\* build with NDEBUG: the build with assertions differs when one fails.
\* both = FALSE keeps the NDEBUG build only
Builds(r, v, d, c, qmin, qmax, aligned, both) ==
    IF r.asserts_ok \/ ~both THEN {r}
    ELSE {r, partition_fuzzy(v, d, c, qmin, qmax, aligned, FALSE)}

\* the caller partitions its table: the driver runs the SIMD form on an
\* aligned table and the scalar form otherwise
Partition(aligned) ==
    /\ res[PathOf(aligned)].outcome = "none"
    /\ \E r \in Builds(partition_fuzzy(vals0, ids0, is_max, q_min, q_max,
                                        aligned, TRUE),
                        vals0, ids0, is_max, q_min, q_max, aligned, TRUE) :
          res' = [res EXCEPT ![PathOf(aligned)] = r]
    /\ UNCHANGED <<vals0, ids0, q_min, q_max, is_max, res2, hcall, hres>>

\* the outcomes of a second call on the tables (r1.vals, r1.ids) a first
\* call left: a first call that returned with a failed assertion ran in
\* the NDEBUG build, and so does the second
Again(r1, c, qmin, qmax, aligned) ==
    Builds(partition_fuzzy(r1.vals, r1.ids, c, qmin, qmax, aligned, TRUE),
           r1.vals, r1.ids, c, qmin, qmax, aligned, r1.asserts_ok)

\* partition(vals, ids, n, q) called again on the tables its first call
\* left, in the same build
PartitionAgain(aligned) ==
    /\ q_min = q_max
    /\ res[PathOf(aligned)].outcome = "returned"
    /\ res2[PathOf(aligned)].outcome = "none"
    /\ \E r \in Again(res[PathOf(aligned)], is_max, q_min, q_max, aligned) :
          res2' = [res2 EXCEPT ![PathOf(aligned)] = r]
    /\ UNCHANGED <<vals0, ids0, q_min, q_max, is_max, res, hcall, hres>>

Next ==
    \/ \E aligned \in BOOLEAN : Partition(aligned)
    \/ \E aligned \in BOOLEAN : PartitionAgain(aligned)

Spec == Init /\ [][Next]_vars

(***************************************************************************)
(* The histogram calls                                                     *)
(***************************************************************************)
\* longest array of the exhaustive family of histogram inputs
MaxHN == 2

\* the values of the histogrammed arrays: bins of both histograms, values
\* past the last bin, and the largest uint16_t
HScores == {0, 1, 10, 65535}

HData ==
    UNION {[1..n -> HScores] : n \in 0..MaxHN}
    \cup {[i \in 1..n |-> p[((i - 1) % 2) + 1]] :
            p \in [1..2 -> HScores], n \in Lanes..(Lanes + MaxTail)}

\* the shifts a caller passes: unbounded, every dispatched one, and two
\* that are not dispatched
HShifts == {-1} \cup 0..10

HistInit ==
    /\ vals0 = <<>>
    /\ ids0 = <<>>
    /\ q_min = 0
    /\ q_max = 0
    /\ is_max = TRUE
    /\ res = [p \in Paths |-> NoCall]
    /\ res2 = [p \in Paths |-> NoCall]
    /\ \E data \in HData, bins \in {8, 16}, min \in {0, 1},
          shift \in HShifts, fill \in {0, 7} :
          hcall = [data |-> data, bins |-> bins, min |-> min, shift |-> shift,
                   hist |-> [i \in 1..bins |-> fill]]
    /\ hres = NoHist

SimdHistogram8 ==
    /\ hcall.bins = 8
    /\ hres.outcome = "none"
    /\ hres' = simd_histogram_8(hcall.data, hcall.min, hcall.shift, hcall.hist)
    /\ UNCHANGED <<vals0, ids0, q_min, q_max, is_max, res, res2, hcall>>

SimdHistogram16 ==
    /\ hcall.bins = 16
    /\ hres.outcome = "none"
    /\ hres' = simd_histogram_16(hcall.data, hcall.min, hcall.shift, hcall.hist)
    /\ UNCHANGED <<vals0, ids0, q_min, q_max, is_max, res, res2, hcall>>

HistNext == SimdHistogram8 \/ SimdHistogram16

HistSpec == HistInit /\ [][HistNext]_vars

(***************************************************************************)
(* The histogram calls on long arrays                                      *)
(***************************************************************************)
\* the number of full blocks of the longest array
MaxBlocks == 128

\* lengths in blocks: up to the longest, and around half of it
LongBlocks == {(MaxBlocks \div 2) - 1, MaxBlocks \div 2,
               MaxBlocks - 1, MaxBlocks}

\* arrays of full blocks whose values all fall into one bin, for bins of
\* both histograms and a bin of the 16-bin histogram only
LongData ==
    {[i \in 1..(k * Lanes) |-> x] : k \in LongBlocks, x \in {0, 3, 7, 15}}

LongHistInit ==
    /\ vals0 = <<>>
    /\ ids0 = <<>>
    /\ q_min = 0
    /\ q_max = 0
    /\ is_max = TRUE
    /\ res = [p \in Paths |-> NoCall]
    /\ res2 = [p \in Paths |-> NoCall]
    /\ \E data \in LongData, bins \in {8, 16}, shift \in {-1, 0},
          fill \in {0, 7} :
          hcall = [data |-> data, bins |-> bins, min |-> 0, shift |-> shift,
                   hist |-> [i \in 1..bins |-> fill]]
    /\ hres = NoHist

LongHistSpec == LongHistInit /\ [][HistNext]_vars


(***************************************************************************)
(* Vocabulary of the properties                                            *)
(***************************************************************************)
N == Len(vals0)

\* a call that runs the search: n >= 3 and 1 <= q_min <= q_max < n
NonTrivial == N >= 3 /\ 1 <= q_min /\ q_min <= q_max /\ q_max < N

\* the bounds the interface asks for: 0 <= q_min <= q_max <= n
ValidBounds == 0 <= q_min /\ q_min <= q_max /\ q_max <= N

Returned(r) == r.outcome = "returned"
Called(r) == r.outcome # "none"

\* the call ran the search, left its loop through one of the two breaks
\* that reach the target, passed every assertion and returned
ReachedTarget(r) ==
    Returned(r) /\ r.asserts_ok /\ r.exit \in {"q_min", "n_lt"}

\* x is strictly better than the threshold t ("n_lt" counts these)
Better(t, x) == cmp(is_max, t, x)
BetterOrEqual(t, x) == Better(t, x) \/ x = t

\* the tables of outcome r are the tables (v, d), untouched
Untouched(r, v, d) == r.vals = v /\ r.ids = d

\* how often the pair x occurs in the tables (v, d)
PairCount(v, d, x) == Cardinality({i \in 1..Len(v) : <<v[i], d[i]>> = x})
Pairs(v, d) == {<<v[i], d[i]>> : i \in 1..Len(v)}

\* the places of (v, d) a stable filter with threshold t and k equal values
\* keeps: the strictly better ones and the first k equal ones
Kept(v, t, k) ==
    {i \in 1..Len(v) :
        \/ Better(t, v[i])
        \/ /\ v[i] = t
           /\ Cardinality({j \in 1..(i - 1) : v[j] = t}) < k}

\* the r-th place of the set of places S, in increasing order
Nth(S, r) == CHOOSE i \in S : Cardinality({j \in S : j <= i}) = r

NumBetter(v, t) == Cardinality({i \in 1..Len(v) : Better(t, v[i])})

\* the first q places of outcome r hold the stable filter of (vals0, ids0)
StablePrefix(r) ==
    LET k == r.q_out - NumBetter(vals0, r.thresh)
        S == Kept(vals0, r.thresh, k)
    IN  /\ Cardinality(S) = r.q_out
        /\ \A j \in 1..r.q_out :
              /\ j <= N
              /\ r.vals[j] = vals0[Nth(S, j)]
              /\ r.ids[j] = ids0[Nth(S, j)]
              /\ BetterOrEqual(r.thresh, r.vals[j])

(***************************************************************************)
(* C1. On a call that runs the search (n >= 3, 1 <= q_min <= q_max < n),   *)
(* in either form and for either comparison, the q written to q_out lies   *)
(* in [q_min, q_max].                                                      *)
(***************************************************************************)
C1_AchievedInWindow ==
    \A p \in Paths :
        (NonTrivial /\ Returned(res[p]))
            => (q_min <= res[p].q_out /\ res[p].q_out <= q_max)

(***************************************************************************)
(* C2. After a call that runs the search returns threshold T and count q,  *)
(* the first q places hold the stable filter of the original tables: all   *)
(* the elements strictly better than T and the first q - n_lt equal to T,  *)
(* in their original order, each with its id; so every one of them is      *)
(* better than or equal to T.                                              *)
(***************************************************************************)
C2_PrefixIsStableFilter ==
    \A p \in Paths :
        (NonTrivial /\ Returned(res[p])) => StablePrefix(res[p])

ExactCall == N >= 3 /\ 0 < q_min /\ q_min < N /\ q_min = q_max

C5_ScalarSimdAgree ==
    (Returned(res["scalar"]) /\ Returned(res["simd"]) /\ ValidBounds) =>
        /\ res["scalar"].q_out = res["simd"].q_out
        /\ res["scalar"].thresh = res["simd"].thresh

(***************************************************************************)
(* C6. A call with q_min = 0 (any n, any q_max, either comparison, either  *)
(* form) writes q = 0, returns a threshold that no score is strictly       *)
(* better than, and leaves both tables as they were.                       *)
(***************************************************************************)
C6_LowerShortcut ==
    \A p \in Paths :
        (q_min = 0 /\ Called(res[p])) =>
            /\ Returned(res[p])
            /\ res[p].q_out = 0
            /\ \A s \in Scores \cup {0, U16Max} : ~Better(res[p].thresh, s)
            /\ Untouched(res[p], vals0, ids0)

(***************************************************************************)
(* C7. A call with q_min > 0 and q_max >= n writes q = q_max, returns a    *)
(* threshold that every value of the table is better than or equal to,     *)
(* and leaves both tables as they were.                                    *)
(***************************************************************************)
C7_UpperShortcut ==
    \A p \in Paths :
        (q_min > 0 /\ q_max >= N /\ Called(res[p])) =>
            /\ Returned(res[p])
            /\ res[p].q_out = q_max
            /\ \A i \in 1..N : BetterOrEqual(res[p].thresh, vals0[i])
            /\ Untouched(res[p], vals0, ids0)

(***************************************************************************)
(* C8. A call with n = 2 and q_min = q_max = 1 (n < 3 and no shortcut)     *)
(* ends in an error in whichever form the driver runs: it returns no       *)
(* (threshold, q) and leaves both tables as they were.                     *)
(***************************************************************************)
C8_SmallTableRejected ==
    \A p \in Paths :
        (N = 2 /\ q_min = 1 /\ q_max = 1 /\ Called(res[p])) =>
            /\ res[p].outcome = "throw"
            /\ Untouched(res[p], vals0, ids0)

(***************************************************************************)
(* C9. A call whose bounds break 0 <= q_min <= q_max <= n never returns    *)
(* with a q outside [q_min, q_max] or above n, and never changes the       *)
(* tables.                                                                 *)
(***************************************************************************)
C9_BadBoundsRejected ==
    \A p \in Paths :
        (~ValidBounds /\ Called(res[p])) =>
            /\ Returned(res[p]) =>
                  /\ q_min <= res[p].q_out /\ res[p].q_out <= q_max
                  /\ res[p].q_out <= N
            /\ Untouched(res[p], vals0, ids0)


(***************************************************************************)
(* C10. simd_histogram_8 and simd_histogram_16 called with shift > 8 end   *)
(* in a reported error with hist exactly as the caller passed it; every    *)
(* shift in 0..8 is accepted: the call returns, with hist assigned from    *)
(* the data alone (what hist held before is not part of the result); a     *)
(* negative shift selects the unbounded version, whose result does not     *)
(* depend on min. Checked under HistSpec.                                  *)
(***************************************************************************)
C10_ShiftValidation ==
    hres.outcome # "none" =>
        /\ hcall.shift > 8 =>
              /\ hres.outcome = "throw"
              /\ hres.hist = hcall.hist
        /\ hcall.shift \in 0..8 =>
              /\ hres.outcome = "returned"
              /\ Len(hres.hist) = hcall.bins
              /\ hres.hist = simd_histogram(hcall.data, hcall.bins, hcall.min,
                                            hcall.shift,
                                            [i \in 1..hcall.bins |-> 0]).hist
        /\ hcall.shift < 0 =>
              /\ hres.outcome \in {"returned", "ub"}
              /\ \A m \in {0, 1, 10, U16Max} :
                    hres = simd_histogram(hcall.data, hcall.bins, m,
                                          hcall.shift, hcall.hist)

\* a call with a shift that is not dispatched, on a hist that held counts
C10_Witness ==
    /\ hres.outcome = "throw"
    /\ hcall.shift > 8
    /\ Len(hcall.data) > Lanes
    /\ \E i \in 1..hcall.bins : hcall.hist[i] # 0

(***************************************************************************)
(* C11. After simd_histogram_8 / simd_histogram_16 return from a call with *)
(* a shift in 0..8, hist[b] is the number of places i with data[i] >= min  *)
(* and (data[i] - min) >> shift = b, for each bin b, whatever hist held    *)
(* before; a value below min or past the last bin is counted nowhere.      *)
(* Checked under HistSpec.                                                 *)
(***************************************************************************)
\* the number of values of data that belong to bin b
ExactCount(data, min, shift, b) ==
    Cardinality({i \in 1..Len(data) :
                    /\ data[i] >= min
                    /\ (data[i] - min) \div (2 ^ shift) = b})

C11_ShiftedHistogramExact ==
    (hres.outcome = "returned" /\ hcall.shift \in 0..8) =>
        \A b \in 0..(hcall.bins - 1) :
            hres.hist[b + 1]
                = ExactCount(hcall.data, hcall.min, hcall.shift, b)

(***************************************************************************)
(* C12. The counters of histogram_8 / histogram_16 never overflow: for an  *)
(* array of any length whose values all lie in [0, bins), also when they   *)
(* all fall in one bin, the unbounded call leaves in each hist[b] the      *)
(* number of occurrences of b, and the counts sum to n. Checked under      *)
(* LongHistSpec.                                                           *)
(***************************************************************************)
\* every value of the array is a bin
AllInRange == \A i \in 1..Len(hcall.data) : hcall.data[i] < hcall.bins

C12_CountersNeverOverflow ==
    (hres.outcome = "returned" /\ hcall.shift < 0 /\ AllInRange) =>
        /\ \A b \in 0..(hcall.bins - 1) :
              hres.hist[b + 1] = ExactCount(hcall.data, 0, 0, b)
        /\ SumSeq(hres.hist) = Len(hcall.data)

(***************************************************************************)
(* C13. On a call that runs the search (n >= 3, 1 <= q_min <= q_max < n),  *)
(* in either form, no assertion fails: n_eq_1 <= n_eq before the compress  *)
(* pass, n_eq == 0 at its end and wp == q after it, also when the loop     *)
(* ends without reaching the target and the tie correction is taken. A     *)
(* build with assertions never aborts, a build without never returns with  *)
(* one of them false.                                                      *)
(***************************************************************************)
C13_AssertionsHold ==
    \A p \in Paths :
        (NonTrivial /\ Called(res[p])) =>
            /\ res[p].outcome # "abort"
            /\ res[p].asserts_ok

(***************************************************************************)
(* C14. When the SIMD form searches between the minimum and the maximum    *)
(* of the table, these differ and 1 <= q_min <= q_max < n, the loop ends   *)
(* through one of the two breaks that reach the target, after at most      *)
(* ceil(log2(max - min + 1)) + 1 iterations, with s0 < s1, and the tie     *)
(* correction is not taken.                                                *)
(***************************************************************************)
\* the smallest k with 2^k >= w
RECURSIVE CeilLog2From(_, _)
CeilLog2From(w, k) == IF 2 ^ k >= w THEN k ELSE CeilLog2From(w, k + 1)
CeilLog2(w) == CeilLog2From(w, 0)

\* the call searches: no shortcut applies
SimdSearches ==
    /\ Called(res["simd"])
    /\ 1 <= q_min /\ q_min <= q_max /\ q_max < N
    /\ find_minimax(vals0).smin < find_minimax(vals0).smax

\* what the loop of that call left
SimdLoopEnd ==
    simd_loop(vals0, is_max, q_min, q_max, 0,
              find_minimax(vals0).smin, find_minimax(vals0).smax + 1,
              [thresh |-> 0, n_lt |-> 0, n_eq |-> 0, q |-> 0, it |-> 0,
               exit |-> "none", s0 |-> find_minimax(vals0).smin,
               s1 |-> find_minimax(vals0).smax + 1])

C14_SimdSearchConverges ==
    SimdSearches =>
        /\ res["simd"].exit \in {"q_min", "n_lt"}
        /\ res["simd"].it
              <= CeilLog2(find_minimax(vals0).smax
                            - find_minimax(vals0).smin + 1) + 1
        /\ ~res["simd"].fixup
        /\ SimdLoopEnd.exit = res["simd"].exit
        /\ SimdLoopEnd.s0 < SimdLoopEnd.s1

\* a search over the whole range of uint16_t that took more than ten
\* iterations to reach its target
C14_Witness ==
    /\ SimdSearches
    /\ res["simd"].it > 10
    /\ res["simd"].exit \in {"q_min", "n_lt"}

====
